---------------------------- MODULE Spec2Model ----------------------------
(***************************************************************************)
(* A model of benchmark_analysis.py: the serial-vs-parallel benchmark of   *)
(* an external analysis executable.                                        *)
(*                                                                         *)
(* Texts are sequences of one-character strings.  A Python float is a      *)
(* reduced fraction <<n, d>> with d > 0 (rounding is not modelled); None   *)
(* is the empty tuple.  A dict is a record; the test 'key in dict' is      *)
(* "key" \in DOMAIN record.                                                *)
(***************************************************************************)
EXTENDS Integers, Sequences, FiniteSets, TLC

(***************************************************************************)
(* Bounds of the model.                                                    *)
(***************************************************************************)
MaxSamples == 2
MaxTextLen == 6
MaxRecords == 3

(***************************************************************************)
(* Numbers.                                                                *)
(***************************************************************************)
None == <<>>

RECURSIVE Gcd(_, _)
Gcd(a, b) == IF b = 0 THEN a ELSE Gcd(b, a % b)

Frac(n, d) == LET g == Gcd(n, d) IN <<n \div g, d \div g>>

Zero == Frac(0, 1)

FracDiv(a, b) == Frac(a[1] * b[2], a[2] * b[1])

FracAdd(a, b) == Frac(a[1] * b[2] + b[1] * a[2], a[2] * b[2])

RECURSIVE Pow10(_)
Pow10(k) == IF k = 0 THEN 1 ELSE 10 * Pow10(k - 1)

(***************************************************************************)
(* Texts.                                                                  *)
(***************************************************************************)
Digits == {"0", "1", "2", "3", "4", "5", "6", "7", "8", "9"}

DigitVal(c) ==
    CASE c = "0" -> 0 [] c = "1" -> 1 [] c = "2" -> 2 [] c = "3" -> 3
      [] c = "4" -> 4 [] c = "5" -> 5 [] c = "6" -> 6 [] c = "7" -> 7
      [] c = "8" -> 8 [] c = "9" -> 9

\* "运行时间" and "处理速度", the labels of the tool's report lines.
TimeLabel == <<"r", "t">>
SpeedLabel == <<"s", "p">>

\* output.split('\n'): the lines of a text, never an empty list.
RECURSIVE SplitLines(_)
SplitLines(s) ==
    IF \A i \in 1..Len(s) : s[i] # "\n"
    THEN <<s>>
    ELSE LET k == CHOOSE i \in 1..Len(s) :
                      s[i] = "\n" /\ \A j \in 1..(i - 1) : s[j] # "\n"
         IN <<SubSeq(s, 1, k - 1)>> \o SplitLines(SubSeq(s, k + 1, Len(s)))

\* metric_name in line: the label occurs in the line as a substring.
Contains(line, name) ==
    \E i \in 0..(Len(line) - Len(name)) :
        \A j \in 1..Len(name) : line[i + j] = name[j]

\* line.replace(',', '')
RemoveCommas(line) == SelectSeq(line, LAMBDA c : c # ",")

\* The character class [\d.] of the pattern.
IsTokenChar(c) == c \in Digits \/ c = "."

\* re.search(r'[\d.]+', s): the leftmost, longest run of token characters,
\* or None when the text has none.
ReSearch(s) ==
    IF \A i \in 1..Len(s) : ~IsTokenChar(s[i])
    THEN None
    ELSE LET b == CHOOSE i \in 1..Len(s) :
                      IsTokenChar(s[i]) /\ \A j \in 1..(i - 1) : ~IsTokenChar(s[j])
             e == CHOOSE i \in b..Len(s) :
                      /\ \A j \in b..i : IsTokenChar(s[j])
                      /\ (i = Len(s) \/ ~IsTokenChar(s[i + 1]))
         IN SubSeq(s, b, e)

\* float(token) on a run of digits and points: a ValueError unless the run
\* has a digit and at most one point.
FloatRaises(tok) ==
    \/ Cardinality({i \in 1..Len(tok) : tok[i] = "."}) > 1
    \/ \A i \in 1..Len(tok) : tok[i] = "."

RECURSIVE DigitsValue(_)
DigitsValue(ds) ==
    IF ds = <<>> THEN 0
    ELSE 10 * DigitsValue(SubSeq(ds, 1, Len(ds) - 1)) + DigitVal(ds[Len(ds)])

Float(tok) ==
    LET ds   == SelectSeq(tok, LAMBDA c : c # ".")
        dots == {i \in 1..Len(tok) : tok[i] = "."}
        frac == IF dots = {} THEN 0 ELSE Len(tok) - (CHOOSE i \in dots : TRUE)
    IN Frac(DigitsValue(ds), Pow10(frac))

\* ExtractFromLines that looks for the number only behind the label.
ExtractFromLines_AfterLabel(lines, metric_name) ==
    LET After(line) ==
            LET clean == RemoveCommas(line)
                at    == CHOOSE i \in 0..(Len(clean) - Len(metric_name)) :
                             /\ \A j \in 1..Len(metric_name) : clean[i + j] = metric_name[j]
                             /\ \A h \in 0..(i - 1) :
                                    \E j \in 1..Len(metric_name) : clean[h + j] # metric_name[j]
            IN SubSeq(clean, at + Len(metric_name) + 1, Len(clean))
        hits == {i \in 1..Len(lines) :
                     Contains(lines[i], metric_name) /\ ReSearch(After(lines[i])) # None}
    IN IF hits = {}
       THEN [raised |-> "", value |-> None]
       ELSE LET match == ReSearch(After(lines[CHOOSE i \in hits : \A j \in hits : i <= j]))
            IN IF FloatRaises(match)
               THEN [raised |-> "ValueError", value |-> None]
               ELSE [raised |-> "", value |-> Float(match)]

\* ExtractFromLines that gives up at the first line with the label, number or not.
ExtractFromLines_StopsAtLabel(lines, metric_name) ==
    LET hits == {i \in 1..Len(lines) : Contains(lines[i], metric_name)}
    IN IF hits = {}
       THEN [raised |-> "", value |-> None]
       ELSE LET line  == lines[CHOOSE i \in hits : \A j \in hits : i <= j]
                match == ReSearch(RemoveCommas(line))
            IN IF match = None THEN [raised |-> "", value |-> None]
               ELSE IF FloatRaises(match)
               THEN [raised |-> "ValueError", value |-> None]
               ELSE [raised |-> "", value |-> Float(match)]

\* extract_metric: [raised |-> "" or the exception, value |-> float or None].
RECURSIVE ExtractFromLines(_, _)
ExtractFromLines(lines, metric_name) ==
    IF lines = <<>>
    THEN [raised |-> "", value |-> None]
    ELSE LET line  == Head(lines)
             match == ReSearch(RemoveCommas(line))
         IN IF Contains(line, metric_name) /\ match # None
            THEN IF FloatRaises(match)
                 THEN [raised |-> "ValueError", value |-> None]
                 ELSE [raised |-> "", value |-> Float(match)]
            ELSE ExtractFromLines(Tail(lines), metric_name)

extract_metric(output, metric_name) ==
    ExtractFromLines(SplitLines(output), metric_name)


(***************************************************************************)
(* The external executable.  Its report is text: a line with the run-time  *)
(* label and a line with the throughput label, each followed by a number.  *)
(* The model draws the text of a run from ToolOutputs: well-formed reports *)
(* with run times 0, 2 and 3, a report whose run time is a lone point, a   *)
(* report without the run-time line and a report without the throughput    *)
(* line.                                                                   *)
(***************************************************************************)
TimeLine(tok) == TimeLabel \o <<":">> \o tok

SpeedLine(tok) == SpeedLabel \o <<":">> \o tok

Report(timeTok, speedTok) == TimeLine(timeTok) \o <<"\n">> \o SpeedLine(speedTok)

ToolOutputs ==
    {Report(<<t>>, <<"5">>) : t \in {"0", "2", "3", "."}}
        \cup {SpeedLine(<<"5">>), TimeLine(<<"2">>)}

\* st_size of a sample, in bytes: one size per bucket, on its boundary.
MiB == 1048576

SampleSizes == {99 * MiB + (MiB - 1), 100 * MiB, 400 * MiB}

OutputPrefixLen == 500

SmallLimit == 100

LargeLimit == 400

(***************************************************************************)
(* State.                                                                  *)
(***************************************************************************)
VARIABLES
    samples_dir_exists, \* SAMPLES_DIR is a directory
    samples,            \* sorted(SAMPLES_DIR.glob("*.flac")), names 1..n
    pc,                 \* position of main
    idx,                \* loop index of main (0 before the first sample)
    filesize_mb,        \* locals of main
    serial_result,
    parallel_result,
    results,
    exception,          \* the exception that ended main, "" if none
    table,              \* rows printed by the result table
    summaries,          \* lines printed by the performance analysis
    rpc,                \* position inside run_benchmark ("idle" outside)
    tmpdir,             \* scratch directory of the current call (0 if none)
    ret,                \* value run_benchmark is about to return
    scratch,            \* scratch directories that exist on disk
    dirs_made,          \* number of scratch directories created so far
    proc,               \* live external processes, each named by its scratch directory
    invocations,        \* calls of subprocess.check_output, in order
    sample_state,       \* per sample: its state in the runner's state machine
    skip_reason,        \* per sample: the failure printed when it was skipped
    runs,               \* history: how each call of run_benchmark ended
    crashed_at,         \* position of main where the uncaught exception rose
    ex_pc,              \* extract_metric taken alone: position,
    ex_output,          \*   text,
    ex_name,            \*   label,
    ex_result           \*   result

main_vars == <<samples_dir_exists, samples, pc, idx, filesize_mb, serial_result,
               parallel_result, results, exception, table, summaries>>

rb_vars == <<rpc, tmpdir, ret, scratch, dirs_made, proc, invocations>>

ghost_vars == <<sample_state, skip_reason, runs, crashed_at>>

ex_vars == <<ex_pc, ex_output, ex_name, ex_result>>

vars == <<main_vars, rb_vars, ghost_vars, ex_vars>>

Undefined == [undefined |-> TRUE]

(***************************************************************************)
(* run_benchmark(sample, serial)                                           *)
(***************************************************************************)
InCall == pc \in {"serial_call", "parallel_call"}

serial == pc = "serial_call"

\* Cmd with the flag on the wrong mode.
Cmd_FlagInverted(dir, isSerial) ==
    IF isSerial THEN <<"EXE_PATH", dir>> ELSE <<"EXE_PATH", dir, "--serial">>

\* cmd = [str(EXE_PATH), tmpdir] (+ "--serial")
Cmd(dir, isSerial) ==
    IF isSerial THEN <<"EXE_PATH", dir, "--serial">> ELSE <<"EXE_PATH", dir>>

\* The dict built from the output of a run that exited with code 0, or the
\* error dict when float() raised inside the try block.
RunResult(output) ==
    LET time_sec  == extract_metric(output, TimeLabel)
        speed_mbs == extract_metric(output, SpeedLabel)
    IN IF time_sec.raised # "" THEN [error |-> time_sec.raised]
       ELSE IF speed_mbs.raised # "" THEN [error |-> speed_mbs.raised]
       ELSE [time   |-> time_sec.value,
             speed  |-> speed_mbs.value,
             output |-> SubSeq(output, 1,
                               IF Len(output) < OutputPrefixLen
                               THEN Len(output) ELSE OutputPrefixLen)]

\* Cleanup that leaves the directory on disk.
Cleanup_Leak(dirs, dir) == dirs

\* TemporaryDirectory.__exit__: the directory and its content are removed.
Cleanup(dirs, dir) == dirs \ {dir}

\* History entry of a call: what happened to it and what it returns or raises.
Run(event, outcome) ==
    [sample |-> samples[idx], serial |-> serial, event |-> event, outcome |-> outcome]

Logged(event, outcome) ==
    /\ runs' = Append(runs, Run(event, outcome))
    /\ UNCHANGED <<sample_state, skip_reason, crashed_at>>

\* with tempfile.TemporaryDirectory() as tmpdir
RB_MkTemp ==
    /\ InCall /\ rpc = "idle"
    /\ dirs_made' = dirs_made + 1
    /\ tmpdir' = dirs_made + 1
    /\ scratch' = scratch \cup {dirs_made + 1}
    /\ rpc' = "copy"
    /\ UNCHANGED <<main_vars, ret, proc, invocations, ghost_vars, ex_vars>>

\* shutil.copy2(sample_path, dest) succeeds
RB_Copy ==
    /\ rpc = "copy"
    /\ rpc' = "invoke"
    /\ UNCHANGED <<main_vars, tmpdir, ret, scratch, dirs_made, proc, invocations,
                   ghost_vars, ex_vars>>

\* shutil.copy2 raises (unreadable sample, full disk): outside the try block
RB_CopyFails ==
    /\ rpc = "copy"
    /\ rpc' = "unwind"
    /\ ret' = [raised |-> "OSError"]
    /\ Logged("copy_error", ret')
    /\ UNCHANGED <<main_vars, tmpdir, scratch, dirs_made, proc, invocations,
                   ex_vars>>

\* subprocess.check_output(cmd, ...) starts the executable
RB_Launch ==
    /\ rpc = "invoke"
    /\ invocations' = Append(invocations,
                             [sample |-> samples[idx], serial |-> serial,
                              cmd |-> Cmd(tmpdir, serial)])
    /\ proc' = proc \cup {tmpdir}
    /\ rpc' = "wait"
    /\ UNCHANGED <<main_vars, tmpdir, ret, scratch, dirs_made, ghost_vars, ex_vars>>

\* subprocess.check_output cannot start the executable: except Exception
RB_LaunchFails ==
    /\ rpc = "invoke"
    /\ invocations' = Append(invocations,
                             [sample |-> samples[idx], serial |-> serial,
                              cmd |-> Cmd(tmpdir, serial)])
    /\ ret' = [error |-> "FileNotFoundError"]
    /\ rpc' = "exit"
    /\ Logged("launch_error", ret')
    /\ UNCHANGED <<main_vars, tmpdir, scratch, dirs_made, proc, ex_vars>>

\* the executable exits with code 0 within the timeout
RB_ExitZero ==
    /\ rpc = "wait"
    /\ \E output \in ToolOutputs : ret' = RunResult(output)
    /\ proc' = proc \ {tmpdir}
    /\ rpc' = "exit"
    /\ Logged("exit_zero", ret')
    /\ UNCHANGED <<main_vars, tmpdir, scratch, dirs_made, invocations, ex_vars>>

\* RB_ExitNonZero as subprocess.run without check=True would behave: the
\* output of the failed run is parsed like that of a successful one.
RB_ExitNonZero_Unchecked ==
    /\ rpc = "wait"
    /\ \E output \in ToolOutputs : ret' = RunResult(output)
    /\ proc' = proc \ {tmpdir}
    /\ rpc' = "exit"
    /\ Logged("exit_nonzero", ret')
    /\ UNCHANGED <<main_vars, tmpdir, scratch, dirs_made, invocations, ex_vars>>

\* the executable exits with a non-zero code: CalledProcessError, which carries
\* the captured output, is caught by except Exception and only str(e) is kept
RB_ExitNonZero ==
    /\ rpc = "wait"
    /\ \E output \in ToolOutputs : ret' = [error |-> "CalledProcessError"]
    /\ proc' = proc \ {tmpdir}
    /\ rpc' = "exit"
    /\ Logged("exit_nonzero", ret')
    /\ UNCHANGED <<main_vars, tmpdir, scratch, dirs_made, invocations, ex_vars>>

\* RB_Timeout that leaves the external process running.
RB_Timeout_NoKill ==
    /\ rpc = "wait"
    /\ ret' = [error |-> "Timeout"]
    /\ rpc' = "exit"
    /\ Logged("timeout", ret')
    /\ UNCHANGED <<main_vars, tmpdir, scratch, dirs_made, proc, invocations, ex_vars>>

\* RB_Timeout without the except subprocess.TimeoutExpired clause (and with
\* TimeoutExpired taken out of except Exception): the exception escapes.
RB_Timeout_Uncaught ==
    /\ rpc = "wait"
    /\ ret' = [raised |-> "TimeoutExpired"]
    /\ proc' = proc \ {tmpdir}
    /\ rpc' = "unwind"
    /\ Logged("timeout", ret')
    /\ UNCHANGED <<main_vars, tmpdir, scratch, dirs_made, invocations, ex_vars>>

\* the timeout expires: the process is killed, except subprocess.TimeoutExpired
RB_Timeout ==
    /\ rpc = "wait"
    /\ ret' = [error |-> "Timeout"]
    /\ proc' = proc \ {tmpdir}
    /\ rpc' = "exit"
    /\ Logged("timeout", ret')
    /\ UNCHANGED <<main_vars, tmpdir, scratch, dirs_made, invocations, ex_vars>>

\* a return statement leaves the with block and hands the dict to main
RB_Return ==
    /\ rpc = "exit"
    /\ scratch' = Cleanup(scratch, tmpdir)
    /\ tmpdir' = 0
    /\ rpc' = "idle"
    /\ ret' = Undefined
    /\ IF serial
       THEN /\ serial_result' = ret
            /\ pc' = "serial_check"
            /\ UNCHANGED parallel_result
       ELSE /\ parallel_result' = ret
            /\ pc' = "parallel_check"
            /\ UNCHANGED serial_result
    /\ UNCHANGED <<samples_dir_exists, samples, idx, filesize_mb, results, exception,
                   table, summaries, dirs_made, proc, invocations, ghost_vars, ex_vars>>

\* an exception leaves the with block and, uncaught in main, ends the program
RB_Unwind ==
    /\ rpc = "unwind"
    /\ scratch' = Cleanup(scratch, tmpdir)
    /\ tmpdir' = 0
    /\ rpc' = "idle"
    /\ exception' = ret.raised
    /\ ret' = Undefined
    /\ pc' = "crashed"
    /\ crashed_at' = pc
    /\ UNCHANGED <<sample_state, skip_reason, runs>>
    /\ UNCHANGED <<samples_dir_exists, samples, idx, filesize_mb, serial_result,
                   parallel_result, results, table, summaries, dirs_made, proc,
                   invocations, ex_vars>>

(***************************************************************************)
(* main()                                                                  *)
(***************************************************************************)
\* Truth value of a float or None in a conditional expression.
Truthy(x) == x # None /\ x # Zero

\* format(x, ".2f") raises TypeError when x is None.
FormatRaises(x) == x = None

\* Speedup with the ratio upside down.
Speedup_Inverted(serial_time, parallel_time) ==
    IF Truthy(parallel_time) THEN FracDiv(parallel_time, serial_time) ELSE Zero

\* serial_result['time'] / parallel_result['time'] if parallel_result['time'] else 0
SpeedupRaises(serial_time, parallel_time) ==
    Truthy(parallel_time) /\ serial_time = None

Speedup(serial_time, parallel_time) ==
    IF Truthy(parallel_time) THEN FracDiv(serial_time, parallel_time) ELSE Zero

\* The dict appended to results.
MakeRecord(name, size_mb, sr, pr) ==
    [name           |-> name,
     size_mb        |-> size_mb,
     serial_time    |-> sr.time,
     parallel_time  |-> pr.time,
     serial_speed   |-> sr.speed,
     parallel_speed |-> pr.speed,
     speedup        |-> Speedup(sr.time, pr.time)]

\* for idx, sample in enumerate(samples, 1): the next sample and its size
NextSample ==
    /\ pc = "loop" /\ idx < Len(samples)
    /\ idx' = idx + 1
    /\ \E st_size \in SampleSizes : filesize_mb' = st_size \div MiB
    /\ pc' = "serial_call"
    /\ UNCHANGED <<samples_dir_exists, samples, serial_result, parallel_result,
                   results, exception, table, summaries, rb_vars, ghost_vars, ex_vars>>

\* the loop is exhausted
LoopExit ==
    /\ pc = "loop" /\ idx = Len(samples)
    /\ pc' = "table"
    /\ UNCHANGED <<samples_dir_exists, samples, idx, filesize_mb, serial_result,
                   parallel_result, results, exception, table, summaries, rb_vars,
                   ghost_vars, ex_vars>>

\* SerialCheck without the continue statement: the failure is printed and the
\* loop body goes on to the cooldown and the parallel run.
SerialCheck_NoContinue ==
    /\ pc = "serial_check"
    /\ IF "error" \in DOMAIN serial_result
       THEN /\ pc' = "sleep"
            /\ skip_reason' = [skip_reason EXCEPT ![idx] = serial_result.error]
            /\ UNCHANGED <<exception, sample_state, runs, crashed_at>>
       ELSE IF FormatRaises(serial_result.time) \/ FormatRaises(serial_result.speed)
       THEN /\ pc' = "crashed"
            /\ exception' = "TypeError"
            /\ crashed_at' = pc
            /\ UNCHANGED <<sample_state, skip_reason, runs>>
       ELSE /\ pc' = "sleep"
            /\ sample_state' = [sample_state EXCEPT ![idx] = "SerialDone"]
            /\ UNCHANGED <<exception, skip_reason, runs, crashed_at>>
    /\ UNCHANGED <<samples_dir_exists, samples, idx, filesize_mb, serial_result,
                   parallel_result, results, table, summaries, rb_vars, ex_vars>>

\* if 'error' in serial_result: ... continue / else: print(...)
SerialCheck ==
    /\ pc = "serial_check"
    /\ IF "error" \in DOMAIN serial_result
       THEN /\ pc' = "loop"
            /\ sample_state' = [sample_state EXCEPT ![idx] = "Skipped"]
            /\ skip_reason' = [skip_reason EXCEPT ![idx] = serial_result.error]
            /\ UNCHANGED <<exception, runs, crashed_at>>
       ELSE IF FormatRaises(serial_result.time) \/ FormatRaises(serial_result.speed)
       THEN /\ pc' = "crashed"
            /\ exception' = "TypeError"
            /\ crashed_at' = pc
            /\ UNCHANGED <<sample_state, skip_reason, runs>>
       ELSE /\ pc' = "sleep"
            /\ sample_state' = [sample_state EXCEPT ![idx] = "SerialDone"]
            /\ UNCHANGED <<exception, skip_reason, runs, crashed_at>>
    /\ UNCHANGED <<samples_dir_exists, samples, idx, filesize_mb, serial_result,
                   parallel_result, results, table, summaries, rb_vars, ex_vars>>

\* time.sleep(2)
Sleep ==
    /\ pc = "sleep"
    /\ pc' = "parallel_call"
    /\ sample_state' = [sample_state EXCEPT ![idx] = "PendingParallel"]
    /\ UNCHANGED <<samples_dir_exists, samples, idx, filesize_mb, serial_result,
                   parallel_result, results, exception, table, summaries, rb_vars,
                   skip_reason, runs, crashed_at, ex_vars>>

\* ParallelCheck that keeps a serial-only record of a sample whose parallel run
\* failed.
ParallelCheck_KeepsPartial ==
    /\ pc = "parallel_check"
    /\ IF "error" \in DOMAIN parallel_result
       THEN /\ pc' = "loop"
            /\ results' = Append(results,
                                 [name           |-> samples[idx],
                                  size_mb        |-> filesize_mb,
                                  serial_time    |-> serial_result.time,
                                  parallel_time  |-> None,
                                  serial_speed   |-> serial_result.speed,
                                  parallel_speed |-> None,
                                  speedup        |-> Zero])
            /\ sample_state' = [sample_state EXCEPT ![idx] = "Skipped"]
            /\ skip_reason' = [skip_reason EXCEPT ![idx] = parallel_result.error]
            /\ UNCHANGED <<exception, runs, crashed_at>>
       ELSE IF FormatRaises(parallel_result.time) \/ FormatRaises(parallel_result.speed)
       THEN /\ pc' = "crashed"
            /\ exception' = "TypeError"
            /\ crashed_at' = pc
            /\ UNCHANGED <<results, sample_state, skip_reason, runs>>
       ELSE /\ pc' = "record"
            /\ sample_state' = [sample_state EXCEPT ![idx] = "ParallelDone"]
            /\ UNCHANGED <<results, exception, skip_reason, runs, crashed_at>>
    /\ UNCHANGED <<samples_dir_exists, samples, idx, filesize_mb, serial_result,
                   parallel_result, table, summaries, rb_vars, ex_vars>>

\* if 'error' in parallel_result: ... continue / else: print(...)
ParallelCheck ==
    /\ pc = "parallel_check"
    /\ IF "error" \in DOMAIN parallel_result
       THEN /\ pc' = "loop"
            /\ sample_state' = [sample_state EXCEPT ![idx] = "Skipped"]
            /\ skip_reason' = [skip_reason EXCEPT ![idx] = parallel_result.error]
            /\ UNCHANGED <<exception, runs, crashed_at>>
       ELSE IF FormatRaises(parallel_result.time) \/ FormatRaises(parallel_result.speed)
       THEN /\ pc' = "crashed"
            /\ exception' = "TypeError"
            /\ crashed_at' = pc
            /\ UNCHANGED <<sample_state, skip_reason, runs>>
       ELSE /\ pc' = "record"
            /\ sample_state' = [sample_state EXCEPT ![idx] = "ParallelDone"]
            /\ UNCHANGED <<exception, skip_reason, runs, crashed_at>>
    /\ UNCHANGED <<samples_dir_exists, samples, idx, filesize_mb, serial_result,
                   parallel_result, results, table, summaries, rb_vars, ex_vars>>

\* Record that puts the new record in front of the earlier ones.
Record_Prepend ==
    /\ pc = "record"
    /\ IF SpeedupRaises(serial_result.time, parallel_result.time)
       THEN /\ pc' = "crashed"
            /\ exception' = "TypeError"
            /\ crashed_at' = pc
            /\ UNCHANGED <<results, sample_state, skip_reason, runs>>
       ELSE /\ results' = <<MakeRecord(samples[idx], filesize_mb,
                                       serial_result, parallel_result)>> \o results
            /\ sample_state' = [sample_state EXCEPT ![idx] = "Recorded"]
            /\ pc' = "loop"
            /\ UNCHANGED <<exception, skip_reason, runs, crashed_at>>
    /\ UNCHANGED <<samples_dir_exists, samples, idx, filesize_mb, serial_result,
                   parallel_result, table, summaries, rb_vars, ex_vars>>

\* speedup = ...; results.append({...})
Record ==
    /\ pc = "record"
    /\ IF SpeedupRaises(serial_result.time, parallel_result.time)
       THEN /\ pc' = "crashed"
            /\ exception' = "TypeError"
            /\ crashed_at' = pc
            /\ UNCHANGED <<results, sample_state, skip_reason, runs>>
       ELSE /\ results' = Append(results, MakeRecord(samples[idx], filesize_mb,
                                                     serial_result, parallel_result))
            /\ sample_state' = [sample_state EXCEPT ![idx] = "Recorded"]
            /\ pc' = "loop"
            /\ UNCHANGED <<exception, skip_reason, runs, crashed_at>>
    /\ UNCHANGED <<samples_dir_exists, samples, idx, filesize_mb, serial_result,
                   parallel_result, table, summaries, rb_vars, ex_vars>>

\* for r in results: print(f"{r['name']} | {r['size_mb']}M | ...")
Table ==
    /\ pc = "table"
    /\ IF \E i \in 1..Len(results) :
              FormatRaises(results[i].serial_time) \/ FormatRaises(results[i].parallel_time)
       THEN /\ pc' = "crashed"
            /\ exception' = "TypeError"
            /\ crashed_at' = pc
            /\ UNCHANGED table
       ELSE /\ table' = [i \in 1..Len(results) |->
                            <<results[i].name, results[i].size_mb, results[i].serial_time,
                              results[i].parallel_time, results[i].speedup>>]
            /\ pc' = "analysis"
            /\ UNCHANGED <<exception, crashed_at>>
    /\ UNCHANGED <<samples_dir_exists, samples, idx, filesize_mb, serial_result,
                   parallel_result, results, summaries, rb_vars, sample_state, skip_reason,
                   runs, ex_vars>>

\* Small with the boundary on the wrong side.
Small_Inclusive(rs) == SelectSeq(rs, LAMBDA r : r.size_mb <= SmallLimit)

\* The three list comprehensions over results.
Small(rs) == SelectSeq(rs, LAMBDA r : r.size_mb < SmallLimit)

Medium(rs) == SelectSeq(rs, LAMBDA r : SmallLimit <= r.size_mb /\ r.size_mb < LargeLimit)

Large(rs) == SelectSeq(rs, LAMBDA r : r.size_mb >= LargeLimit)

\* sum(r['speedup'] for r in bucket)
RECURSIVE SumSpeedup(_)
SumSpeedup(bucket) ==
    IF bucket = <<>> THEN Zero
    ELSE FracAdd(SumSpeedup(SubSeq(bucket, 1, Len(bucket) - 1)),
                 bucket[Len(bucket)].speedup)

\* SummaryLine over the records with a measured speedup only.
SummaryLine_SkipsUnmeasured(label, bucket) ==
    LET measured == SelectSeq(bucket, LAMBDA r : r.speedup # Zero)
    IN IF measured # <<>>
       THEN <<[bucket |-> label,
               count  |-> Len(measured),
               mean   |-> FracDiv(SumSpeedup(measured), Frac(Len(measured), 1))]>>
       ELSE <<>>

\* SummaryLine without the test for an empty bucket, which it reports as zero.
SummaryLine_ReportsEmpty(label, bucket) ==
    <<[bucket |-> label,
       count  |-> Len(bucket),
       mean   |-> IF bucket = <<>> THEN Zero
                  ELSE FracDiv(SumSpeedup(bucket), Frac(Len(bucket), 1))]>>

\* if bucket: avg = sum(...) / len(bucket); print(label, len(bucket), avg)
SummaryLine(label, bucket) ==
    IF bucket # <<>>
    THEN <<[bucket |-> label,
            count  |-> Len(bucket),
            mean   |-> FracDiv(SumSpeedup(bucket), Frac(Len(bucket), 1))]>>
    ELSE <<>>

Summaries(rs) ==
    SummaryLine("small", Small(rs)) \o SummaryLine("medium", Medium(rs))
        \o SummaryLine("large", Large(rs))

\* the performance analysis, then "测试完成"
Analysis ==
    /\ pc = "analysis"
    /\ summaries' = Summaries(results)
    /\ pc' = "done"
    /\ UNCHANGED <<samples_dir_exists, samples, idx, filesize_mb, serial_result,
                   parallel_result, results, exception, table, rb_vars, ghost_vars,
                   ex_vars>>

(***************************************************************************)
(* The program: main() from its first line.                                *)
(***************************************************************************)
ExIdle ==
    /\ ex_pc = "idle" /\ ex_output = <<>> /\ ex_name = <<>>
    /\ ex_result = Undefined

RbIdle ==
    /\ rpc = "idle" /\ tmpdir = 0 /\ ret = Undefined /\ scratch = {}
    /\ proc = {}

Init ==
    /\ samples_dir_exists \in BOOLEAN
    /\ \E n \in 0..MaxSamples :
           samples = IF samples_dir_exists THEN [i \in 1..n |-> i] ELSE <<>>
    /\ pc = "loop" /\ idx = 0
    /\ filesize_mb = 0
    /\ serial_result = Undefined /\ parallel_result = Undefined
    /\ results = <<>> /\ exception = ""
    /\ table = <<>> /\ summaries = <<>>
    /\ RbIdle /\ dirs_made = 0 /\ invocations = <<>>
    /\ sample_state = [i \in 1..Len(samples) |-> "PendingSerial"]
    /\ skip_reason = [i \in 1..Len(samples) |-> ""]
    /\ runs = <<>> /\ crashed_at = ""
    /\ ExIdle

RunBenchmark ==
    \/ RB_MkTemp \/ RB_Copy \/ RB_CopyFails \/ RB_Launch \/ RB_LaunchFails
    \/ RB_ExitZero \/ RB_ExitNonZero \/ RB_Timeout \/ RB_Return \/ RB_Unwind

Next ==
    \/ NextSample \/ LoopExit \/ RunBenchmark \/ SerialCheck \/ Sleep
    \/ ParallelCheck \/ Record \/ Table \/ Analysis

Spec == Init /\ [][Next]_vars

(***************************************************************************)
(* The report taken alone: main() at the result table, after a loop in     *)
(* which every sample was recorded.  The sizes cover both sides of each    *)
(* bucket boundary; each pair of ReportRuns is the run time printed by the *)
(* serial and by the parallel run of a sample.                             *)
(***************************************************************************)
ReportSizes == {mb * MiB : mb \in {50, 99, 100, 150, 399, 400, 500}}

ReportRuns == {<<"3", "2">>, <<"2", "1">>, <<"3", "1">>}

\* The dicts run_benchmark returns for the two runs of each pair.
ReportResults ==
    [pair \in ReportRuns |->
        [serial   |-> RunResult(Report(<<pair[1]>>, <<"5">>)),
         parallel |-> RunResult(Report(<<pair[2]>>, <<"5">>))]]

ReportInit ==
    \E k \in 0..MaxRecords : \E f \in [1..k -> ReportSizes \X ReportRuns] :
        LET sr(i) == ReportResults[f[i][2]].serial
            pr(i) == ReportResults[f[i][2]].parallel
        IN /\ samples_dir_exists = TRUE
           /\ samples = [i \in 1..k |-> i]
           /\ pc = "table" /\ idx = k
           /\ filesize_mb = IF k = 0 THEN 0 ELSE f[k][1] \div MiB
           /\ serial_result = IF k = 0 THEN Undefined ELSE sr(k)
           /\ parallel_result = IF k = 0 THEN Undefined ELSE pr(k)
           /\ results = [i \in 1..k |-> MakeRecord(i, f[i][1] \div MiB, sr(i), pr(i))]
           /\ exception = ""
           /\ table = <<>> /\ summaries = <<>>
           /\ RbIdle /\ dirs_made = 2 * k
           /\ invocations = [j \in 1..(2 * k) |->
                                [sample |-> (j + 1) \div 2, serial |-> j % 2 = 1,
                                 cmd |-> Cmd(j, j % 2 = 1)]]
           /\ sample_state = [i \in 1..k |-> "Recorded"]
           /\ skip_reason = [i \in 1..k |-> ""]
           /\ runs = [j \in 1..(2 * k) |->
                         [sample  |-> (j + 1) \div 2,
                          serial  |-> j % 2 = 1,
                          event   |-> "exit_zero",
                          outcome |-> IF j % 2 = 1 THEN sr((j + 1) \div 2)
                                      ELSE pr((j + 1) \div 2)]]
           /\ crashed_at = ""
           /\ ExIdle

ReportNext == Table \/ Analysis

SpecReport == ReportInit /\ [][ReportNext]_vars

(***************************************************************************)
(* extract_metric taken alone, called on every text of at most MaxTextLen  *)
(* characters of Alphabet with either label.                               *)
(***************************************************************************)
Alphabet == {"r", "t", "1", ".", ",", "\n"}

Texts == UNION {[1..k -> Alphabet] : k \in 0..MaxTextLen}

Labels == {TimeLabel, SpeedLabel}

ExtractInit ==
    /\ samples_dir_exists = TRUE
    /\ samples = <<>>
    /\ pc = "loop" /\ idx = 0
    /\ filesize_mb = 0
    /\ serial_result = Undefined /\ parallel_result = Undefined
    /\ results = <<>> /\ exception = ""
    /\ table = <<>> /\ summaries = <<>>
    /\ RbIdle /\ dirs_made = 0 /\ invocations = <<>>
    /\ sample_state = <<>> /\ skip_reason = <<>>
    /\ runs = <<>> /\ crashed_at = ""
    /\ ex_pc = "call"
    /\ ex_output \in Texts
    /\ ex_name \in Labels
    /\ ex_result = Undefined

\* a call of extract_metric(ex_output, ex_name) returns or raises
ExtractCall ==
    /\ ex_pc = "call"
    /\ ex_result' = extract_metric(ex_output, ex_name)
    /\ ex_pc' = IF ex_result'.raised = "" THEN "returned" ELSE "raised"
    /\ UNCHANGED <<main_vars, rb_vars, ghost_vars, ex_output, ex_name>>

ExtractNext == ExtractCall

SpecExtract == ExtractInit /\ [][ExtractNext]_vars

(***************************************************************************)
(* Properties.                                                             *)
(***************************************************************************)
Samples == 1..Len(samples)

RunIds == 1..Len(runs)

HasRecord(i) == \E j \in 1..Len(results) : results[j].name = i

Occurrences(bucket, i) == Cardinality({j \in 1..Len(bucket) : bucket[j].name = i})

InAnyBucket(i) ==
    \/ Occurrences(Small(results), i) > 0
    \/ Occurrences(Medium(results), i) > 0
    \/ Occurrences(Large(results), i) > 0

\* The call returned a success outcome / a failure outcome.
ReturnedSuccess(k) == "time" \in DOMAIN runs[k].outcome

ReturnedFailure(k) == "error" \in DOMAIN runs[k].outcome

RunsOf(i, isSerial) == {k \in RunIds : runs[k].sample = i /\ runs[k].serial = isSerial}

InvocationsOf(i) == {j \in 1..Len(invocations) : invocations[j].sample = i}

\* main has acted on the outcome of call k.
Handled(k) ==
    ~(k = Len(runs) /\ (rpc # "idle" \/ pc \in {"serial_check", "parallel_check"}))

InReport == pc \in {"table", "analysis", "done"}

\* C1: a sample has a record in results, or in a bucket, only if its serial
\* run and its parallel run both returned a success outcome; a sample with a
\* failed run has neither.
C1_RecordOnlyIfBothSucceeded ==
    \A i \in Samples :
        (HasRecord(i) \/ InAnyBucket(i)) =>
            /\ \E k \in RunsOf(i, TRUE) : ReturnedSuccess(k)
            /\ \E k \in RunsOf(i, FALSE) : ReturnedSuccess(k)
            /\ \A k \in RunIds : runs[k].sample = i => ~ReturnedFailure(k)

C1_Witness ==
    /\ pc = "done"
    /\ \E i, j \in Samples :
           /\ HasRecord(i)
           /\ ~HasRecord(j)
           /\ \E k \in RunsOf(j, TRUE) : ReturnedSuccess(k)
           /\ \E k \in RunsOf(j, FALSE) : ReturnedFailure(k)

\* C2: a sample whose serial run returned a failure outcome has no parallel
\* run, exactly one external invocation (the serial one), goes from
\* PendingSerial directly to Skipped and is in no bucket.
C2_SerialFailureShortCircuits ==
    \A k \in RunIds :
        (runs[k].serial /\ ReturnedFailure(k)) =>
            LET i == runs[k].sample
            IN /\ RunsOf(i, FALSE) = {}
               /\ Cardinality(InvocationsOf(i)) = 1
               /\ \A j \in InvocationsOf(i) :
                      invocations[j].cmd[Len(invocations[j].cmd)] = "--serial"
               /\ sample_state[i] \in {"PendingSerial", "Skipped"}
               /\ Handled(k) => sample_state[i] = "Skipped"
               /\ ~HasRecord(i) /\ ~InAnyBucket(i)

C2_Witness ==
    /\ pc = "done"
    /\ \E i, j \in Samples :
           /\ \E k \in RunsOf(i, TRUE) : ReturnedFailure(k)
           /\ sample_state[i] = "Skipped"
           /\ RunsOf(j, FALSE) # {}

\* The ways one call of run_benchmark fails.
SampleFailures == {"timeout", "exit_nonzero", "launch_error", "copy_error"}

\* C3 (as claimed): a timeout, a non-zero exit, a launch failure or a copy
\* failure of one sample never ends the program; the sample ends Skipped with
\* a reason.
C3_SampleFailureNeverAborts ==
    \A k \in RunIds :
        runs[k].event \in SampleFailures =>
            /\ ~(pc = "crashed" /\ k = Len(runs)
                    /\ crashed_at \in {"serial_call", "parallel_call"})
            /\ Handled(k) =>
                   /\ sample_state[runs[k].sample] = "Skipped"
                   /\ skip_reason[runs[k].sample] # ""

\* C4: a run that exceeds the timeout returns the failure outcome Timeout; the
\* sample is skipped with that reason, is in neither results nor a bucket,
\* and main goes on with the loop.
C4_TimeoutSkipsAndContinues ==
    \A k \in RunIds :
        runs[k].event = "timeout" =>
            LET i == runs[k].sample
            IN /\ runs[k].outcome = [error |-> "Timeout"]
               /\ ~HasRecord(i) /\ ~InAnyBucket(i)
               /\ Handled(k) =>
                      /\ sample_state[i] = "Skipped"
                      /\ skip_reason[i] = "Timeout"
                      /\ idx = i => (pc = "loop" \/ InReport)
                      /\ (idx = i /\ pc = "loop" /\ i < Len(samples)) => ENABLED NextSample

C4_Witness ==
    \E k, l \in RunIds :
        /\ runs[k].event = "timeout"
        /\ runs[l].sample > runs[k].sample
        /\ sample_state[runs[k].sample] = "Skipped"

\* C5 (as claimed): a run that exits with code 0 and whose output lacks a
\* metric label does not end the program.
C5_AbsentMetricRecovered ==
    \A k \in RunIds :
        (/\ runs[k].event = "exit_zero"
         /\ ReturnedSuccess(k)
         /\ (runs[k].outcome.time = None \/ runs[k].outcome.speed = None))
            => ~(pc = "crashed" /\ k = Len(runs))

\* A float greater than 0.
Positive(x) == x # None /\ x[1] > 0

\* C6: the speedup of a record is serial_time / parallel_time when both are
\* positive and 0 when parallel_time is absent or not positive; computing it
\* never raises.
C6_SpeedupRatioOrZero ==
    /\ crashed_at # "record"
    /\ \A j \in 1..Len(results) :
           LET s == results[j].serial_time
               p == results[j].parallel_time
               q == results[j].speedup
           IN /\ (Positive(s) /\ Positive(p)) =>
                     q[1] * p[1] * s[2] = s[1] * p[2] * q[2]
              /\ ~Positive(p) => q = <<0, 1>>

C6_Witness ==
    \E i, j \in 1..Len(results) :
        /\ results[i].serial_time = <<3, 1>> /\ results[i].parallel_time = <<2, 1>>
        /\ results[i].speedup = <<3, 2>>
        /\ results[j].parallel_time = <<0, 1>> /\ results[j].speedup = <<0, 1>>

\* C7: the scratch directory of a call of run_benchmark is gone when the call
\* has ended, by a return or by an exception; at most one scratch directory
\* exists at any time, and none between calls or at the end.
C7_NoScratchLeftBehind ==
    /\ Cardinality(scratch) <= 1
    /\ scratch \subseteq {tmpdir}
    /\ rpc = "idle" => scratch = {}
    /\ pc \in {"loop", "table", "analysis", "done", "crashed"} => scratch = {}

C7_Witness ==
    /\ pc = "crashed" /\ exception = "OSError"
    /\ scratch = {}
    /\ dirs_made = 3
    /\ \E k, l \in RunIds : runs[k].event = "exit_zero" /\ runs[l].event = "timeout"

\* Number of occurrences expected of a record in a bucket.
Once(cond) == IF cond THEN 1 ELSE 0

RECURSIVE CountSum(_)
CountSum(lines) ==
    IF lines = <<>> THEN 0 ELSE Head(lines).count + CountSum(Tail(lines))

\* C8: every record is in exactly one bucket, once: small iff size < 100,
\* medium iff 100 <= size < 400, large iff size >= 400 (99 small, 100 and 399
\* medium, 400 large); the counts the analysis prints add up to the records.
C8_BucketBoundaries ==
    /\ \A j \in 1..Len(results) :
           LET i  == results[j].name
               sz == results[j].size_mb
           IN /\ Occurrences(Small(results), i) = Once(sz < 100)
              /\ Occurrences(Medium(results), i) = Once(100 <= sz /\ sz < 400)
              /\ Occurrences(Large(results), i) = Once(sz >= 400)
              /\ sz = 99 => Occurrences(Small(results), i) = 1
              /\ sz \in {100, 399} => Occurrences(Medium(results), i) = 1
              /\ sz = 400 => Occurrences(Large(results), i) = 1
    /\ Len(Small(results)) + Len(Medium(results)) + Len(Large(results)) = Len(results)
    /\ pc = "done" => CountSum(summaries) = Len(results)

C8_Witness ==
    /\ pc = "done"
    /\ {99, 100, 400} \subseteq {results[j].size_mb : j \in 1..Len(results)}
    /\ Len(Small(results)) = 1 /\ Len(Medium(results)) = 1 /\ Len(Large(results)) = 1

\* The size ranges of the buckets.
InRange(label, sz) ==
    CASE label = "small"  -> sz < 100
      [] label = "medium" -> 100 <= sz /\ sz < 400
      [] label = "large"  -> sz >= 400

Members(label) == {j \in 1..Len(results) : InRange(label, results[j].size_mb)}

RECURSIVE DenProduct(_)
DenProduct(S) ==
    IF S = {} THEN 1
    ELSE LET j == CHOOSE x \in S : TRUE
         IN results[j].speedup[2] * DenProduct(S \ {j})

RECURSIVE ScaledSum(_, _)
ScaledSum(S, D) ==
    IF S = {} THEN 0
    ELSE LET j == CHOOSE x \in S : TRUE
         IN results[j].speedup[1] * (D \div results[j].speedup[2])
                + ScaledSum(S \ {j}, D)

\* m is the arithmetic mean of the speedups of the records S.
IsMeanOf(m, S) ==
    LET D == DenProduct(S)
    IN m[2] > 0 /\ m[1] * Cardinality(S) * D = ScaledSum(S, D) * m[2]

NonEmptyLabels ==
    SelectSeq(<<"small", "medium", "large">>, LAMBDA l : Members(l) # {})

Scenario ==
    /\ Len(results) = 3
    /\ [j \in 1..3 |-> results[j].size_mb] = <<50, 150, 500>>
    /\ [j \in 1..3 |-> results[j].speedup] = <<<<3, 2>>, <<2, 1>>, <<3, 1>>>>

\* C9: the analysis prints one line per non-empty bucket, in the order small,
\* medium, large, with the number of records of the bucket and the mean of
\* their speedups, and nothing for an empty bucket; records of 50, 150 and
\* 500 MB with speedups 1.5, 2.0 and 3.0 give three one-record lines with
\* means 1.5, 2.0 and 3.0.
C9_SummaryPerNonEmptyBucket ==
    pc = "done" =>
        /\ Len(summaries) = Len(NonEmptyLabels)
        /\ \A n \in 1..Len(summaries) :
               /\ n <= Len(NonEmptyLabels)
               /\ summaries[n].bucket = NonEmptyLabels[n]
               /\ summaries[n].count = Cardinality(Members(NonEmptyLabels[n]))
               /\ summaries[n].count > 0
               /\ IsMeanOf(summaries[n].mean, Members(NonEmptyLabels[n]))
        /\ Scenario =>
               summaries = <<[bucket |-> "small", count |-> 1, mean |-> <<3, 2>>],
                             [bucket |-> "medium", count |-> 1, mean |-> <<2, 1>>],
                             [bucket |-> "large", count |-> 1, mean |-> <<3, 1>>]>>

C9_Witness == pc = "done" /\ Scenario

\* C10 (as claimed): extract_metric never raises; it returns None when no
\* line contains the label, and otherwise None or a number.
C10_ExtractNeverRaises ==
    /\ ex_pc # "raised"
    /\ ex_pc = "returned" =>
           /\ ex_result.value = None \/ ex_result.value[2] > 0
           /\ (\A i \in 1..Len(SplitLines(ex_output)) :
                   ~Contains(SplitLines(ex_output)[i], ex_name))
                  => ex_result.value = None

\* What one line yields: None without a run of digits and points, else the
\* float of the first run or the ValueError of float().
LineResult(line) ==
    LET match == ReSearch(RemoveCommas(line))
    IN IF match = None THEN [raised |-> "", value |-> None]
       ELSE IF FloatRaises(match) THEN [raised |-> "ValueError", value |-> None]
       ELSE [raised |-> "", value |-> Float(match)]

ExLines == SplitLines(ex_output)

LabelLines == {i \in 1..Len(ExLines) : Contains(ExLines[i], ex_name)}

HasNumber(line) == \E i \in 1..Len(line) : line[i] \in Digits \cup {"."}

NumberedLabelLines == {i \in LabelLines : HasNumber(ExLines[i])}

First(S) == CHOOSE i \in S : \A j \in S : i <= j

C12_MissingDirectoryAborts ==
    ~samples_dir_exists => ~(pc = "done" /\ exception = "" /\ samples = <<>>)

\* C13: a run that exits with a non-zero code, or cannot be launched, returns
\* a failure outcome with a diagnostic string other than Timeout, never a
\* success outcome, whatever it printed; only runs that exited with code 0
\* return metrics.
C13_FailedRunIsExecutionError ==
    \A k \in RunIds :
        /\ runs[k].event \in {"exit_nonzero", "launch_error"} =>
               /\ DOMAIN runs[k].outcome = {"error"}
               /\ runs[k].outcome.error \notin {"", "Timeout"}
        /\ ReturnedSuccess(k) => runs[k].event = "exit_zero"

C13_Witness ==
    \E k, l \in RunIds :
        /\ runs[k].event = "exit_nonzero" /\ runs[l].event = "launch_error"
        /\ sample_state[runs[k].sample] = "Skipped"
        /\ skip_reason[runs[k].sample] = "CalledProcessError"

\* C14: every invocation has the scratch directory of its run as its only
\* positional argument and carries --serial exactly when the run is serial;
\* the first invocation of a sample is the serial one, the second, if any,
\* the parallel one.
C14_SerialFlagOnlyInSerialMode ==
    /\ \A j \in 1..Len(invocations) :
           LET cmd == invocations[j].cmd
           IN /\ cmd[1] = "EXE_PATH"
              /\ Len(cmd) = IF invocations[j].serial THEN 3 ELSE 2
              /\ cmd[2] \in 1..dirs_made
              /\ \A l \in 1..Len(invocations) : invocations[l].cmd[2] = cmd[2] => l = j
              /\ (j = Len(invocations) /\ rpc = "wait") =>
                     (cmd[2] = tmpdir /\ tmpdir \in scratch)
              /\ \A a \in 3..Len(cmd) : cmd[a] = "--serial"
    /\ \A i \in Samples :
           /\ Cardinality(InvocationsOf(i)) <= 2
           /\ \A j, l \in InvocationsOf(i) :
                  j < l => (invocations[j].serial /\ ~invocations[l].serial)
           /\ \A j \in InvocationsOf(i) :
                  (\A l \in InvocationsOf(i) : j <= l) => invocations[j].serial

C14_Witness ==
    /\ pc = "done"
    /\ \E i \in Samples : \E j, l \in InvocationsOf(i) :
           /\ invocations[j].cmd = <<"EXE_PATH", invocations[j].cmd[2], "--serial">>
           /\ invocations[l].cmd = <<"EXE_PATH", invocations[l].cmd[2]>>

\* C15: at most one external process is alive at any time, and only inside
\* the call that started it; a parallel run starts only after the serial run
\* of its sample succeeded and the cooldown passed; a sample is started only
\* after every earlier sample is Recorded or Skipped.
C15_OneProcessAtATime ==
    /\ Cardinality(proc) <= 1
    /\ proc # {} => (rpc = "wait" /\ proc = {tmpdir})
    /\ pc = "parallel_call" =>
           /\ sample_state[idx] = "PendingParallel"
           /\ \E k \in RunsOf(samples[idx], TRUE) : ReturnedSuccess(k)
    /\ \A i \in Samples : i < idx => sample_state[i] \in {"Recorded", "Skipped"}
    /\ \A k \in RunIds : runs[k].sample <= idx
    /\ \A j \in 1..Len(invocations) : invocations[j].sample <= idx

C15_Witness ==
    /\ proc # {} /\ pc = "parallel_call" /\ idx = 2
    /\ Len(invocations) = 4

\* C16 (as claimed): when every run that was started has ended and no copy
\* failed, main stops only in the report phase with every sample Recorded or
\* Skipped, whatever the runs returned, absent metrics included.
C16_EverySampleReachesTerminal ==
    (/\ pc \in {"done", "crashed"}
     /\ \A k \in RunIds : runs[k].event # "copy_error")
        => /\ pc = "done"
           /\ \A i \in Samples : sample_state[i] \in {"Recorded", "Skipped"}

\* The line that decides the call, commas removed.
DecidingLine == RemoveCommas(ExLines[First(NumberedLabelLines)])

\* Where the label starts in the deciding line (commas cannot stand inside it).
LabelStart ==
    First({i \in 1..Len(DecidingLine) :
               /\ i + Len(ex_name) - 1 <= Len(DecidingLine)
               /\ SubSeq(DecidingLine, i, i + Len(ex_name) - 1) = ex_name})

\* The maximal run of digits and points of s that begins at position b.
TokenAt(s, b) ==
    LET e == First({i \in b..Len(s) : i = Len(s) \/ ~IsTokenChar(s[i + 1])})
    IN SubSeq(s, b, e)

\* The starts of the numeric tokens of s at or after position from.
TokenStarts(s, from) ==
    {i \in from..Len(s) : IsTokenChar(s[i]) /\ (i = 1 \/ ~IsTokenChar(s[i - 1]))}

\* float() of a token as the result of the call.
Parsed(tok) ==
    IF FloatRaises(tok) THEN [raised |-> "ValueError", value |-> None]
    ELSE [raised |-> "", value |-> Float(tok)]

\* C17 (as claimed): on the line that decides the call, the result is the
\* first numeric token that begins behind the label; digits in front of the
\* label are never returned, and the result is absent when no token follows.
C17_TokenFollowsLabel ==
    (ex_pc # "call" /\ NumberedLabelLines # {}) =>
        LET behind == TokenStarts(DecidingLine, LabelStart + Len(ex_name))
        IN IF behind = {} THEN ex_result = [raised |-> "", value |-> None]
           ELSE ex_result = Parsed(TokenAt(DecidingLine, First(behind)))

\* C17 (amended): on the line that decides the call, the result is the first
\* numeric token of the line, in front of the label or behind it; a token in
\* front of the label is returned and the one behind it is not read.
C17_FirstTokenOfLine ==
    (ex_pc # "call" /\ NumberedLabelLines # {}) =>
        LET starts == TokenStarts(DecidingLine, 1)
        IN /\ starts # {}
           /\ ex_result = Parsed(TokenAt(DecidingLine, First(starts)))

C17_Witness ==
    /\ ex_pc = "returned"
    /\ ex_output = <<"1", "r", "t", "1", "1">>
    /\ ex_name = TimeLabel
    /\ ex_result.value = <<1, 1>>

\* The names of the records of rs form a strictly ascending sequence of
\* enumerated samples: a subsequence of samples with no sample twice.
IsSubsequenceOfSamples(rs) ==
    /\ \A j \in 1..Len(rs) : \E i \in Samples : samples[i] = rs[j].name
    /\ \A j, l \in 1..Len(rs) : j < l => rs[j].name < rs[l].name

\* C18: every step leaves results alone or appends one record to it, that of
\* the current sample, before any run of a later sample has started; the
\* earlier records keep their place and their content, and results stays an
\* ascending subsequence of the enumerated samples.
C18_ResultsAppendOnly ==
    [][/\ IsSubsequenceOfSamples(results) => IsSubsequenceOfSamples(results')
       /\ samples' = samples
       /\ results' # results =>
              /\ Len(results') = Len(results) + 1
              /\ SubSeq(results', 1, Len(results)) = results
              /\ pc = "record"
              /\ results'[Len(results')].name = samples[idx]
              /\ sample_state[idx] = "ParallelDone" /\ sample_state'[idx] = "Recorded"
              /\ \A j \in 1..Len(invocations') : invocations'[j].sample <= idx
              /\ \A k \in 1..Len(runs') : runs'[k].sample <= idx]_vars

C18_Witness ==
    /\ pc = "done"
    /\ Len(results) = 2
    /\ results[1].name = samples[1] /\ results[2].name = samples[2]
    /\ IsSubsequenceOfSamples(results)

\* Record j carries the sentinel: its parallel time was parsed as 0.
Sentinel(j) == results[j].parallel_time = <<0, 1>> /\ results[j].speedup = Zero

\* C19: a record with the sentinel speedup 0 is aggregated like any other:
\* its bucket has a summary line whose count includes it and whose mean is
\* taken over all records of the bucket, its 0 included; a bucket of sentinel
\* records only is reported with mean 0.
C19_SentinelIsAggregated ==
    pc = "done" =>
        \A j \in 1..Len(results) :
            Sentinel(j) =>
                \E n \in 1..Len(summaries) :
                    LET all == Members(summaries[n].bucket)
                        measured == {m \in all : ~Sentinel(m)}
                    IN /\ j \in all
                       /\ summaries[n].count = Cardinality(measured) + Cardinality(all \ measured)
                       /\ summaries[n].mean[1] * summaries[n].count * DenProduct(measured)
                              = ScaledSum(measured, DenProduct(measured)) * summaries[n].mean[2]
                       /\ measured = {} => summaries[n].mean = <<0, 1>>

C19_Witness ==
    /\ pc = "done"
    /\ Len(results) = 2
    /\ Sentinel(1) /\ Sentinel(2)
    /\ results[1].size_mb = results[2].size_mb
    /\ Len(summaries) = 1
    /\ summaries[1].count = 2 /\ summaries[1].mean = <<0, 1>>

=============================================================================
